---- MODULE Spec2Model ----
(***************************************************************************)
(* Upload API lambda of the SDS data manager                               *)
(* (src/sds_data_manager/lambda_code/SDSCode/upload_api.py).               *)
(*                                                                         *)
(* One invocation of lambda_handler is followed through its steps: the     *)
(* check for the filename query parameter, the fetch of config.json, the   *)
(* for loop over the file types, the test after the loop, the presigning   *)
(* call and the response.  Strings that the code takes apart (file names,  *)
(* pattern values, paths) are sequences of one-character strings.          *)
(***************************************************************************)
EXTENDS Integers, Sequences, FiniteSets, TLC

(***************************************************************************)
(* Bounds of the inputs.                                                   *)
(***************************************************************************)
MaxLen == 2
MaxEntries == 2
MaxWrites == 1

(***************************************************************************)
(* Program constants.                                                      *)
(***************************************************************************)
ExpiresIn == 3600

\* os.environ["S3_BUCKET"]: the data bucket's s3:// url.
S3_BUCKET == << "s", "3", ":", "/", "/", "d" >>

(***************************************************************************)
(* Input universes.                                                        *)
(***************************************************************************)
Chars == { "a", "A", "_", "." }

RECURSIVE SeqsUpTo(_, _)
SeqsUpTo(S, n) ==
    IF n = 0 THEN { << >> }
    ELSE LET shorter == SeqsUpTo(S, n - 1)
         IN  shorter \cup { Append(s, x) : s \in shorter, x \in S }

Filenames == SeqsUpTo(Chars, MaxLen)

\* The keys of a pattern, in declared order; a pattern of k fields has the
\* first k of them.
FieldNames == << "mission", "instrument" >>

Wildcard == << "*" >>
PatternValues == { Wildcard, << "a" >> }

\* A pattern is an ordered mapping: a sequence of <<field, value>> pairs.
PatternsOfLen(k) ==
    { [ i \in 1..k |-> << FieldNames[i], v[i] >> ] : v \in [ 1..k -> PatternValues ] }

Patterns == UNION { PatternsOfLen(k) : k \in 0..Len(FieldNames) }

\* The path of the i-th entry of a catalog.
Paths == << << "p", "/" >>, << "q", "/" >>, << "r", "/" >>, << "s", "/" >> >>

CatalogsOfLen(n) ==
    { [ i \in 1..n |-> [ path |-> Paths[i], pattern |-> ps[i] ] ] :
        ps \in [ 1..n -> Patterns ] }

Catalogs == UNION { CatalogsOfLen(n) : n \in 0..MaxEntries }

\* event["queryStringParameters"]: a mapping with or without the keys
\* "filename" and "instrument".
ExtraValue == << "m" >>

Events ==
    { [ k \in {} |-> << >> ], [ k \in { "instrument" } |-> ExtraValue ] }
    \cup { [ k \in { "filename" } |-> f ] : f \in Filenames }
    \cup { [ k \in { "filename", "instrument" } |->
               IF k = "filename" THEN f ELSE ExtraValue ] : f \in Filenames }

(***************************************************************************)
(* Python values.                                                          *)
(***************************************************************************)
Unbound == [ kind |-> "unbound" ]
None == [ kind |-> "none" ]
Dict(d) == [ kind |-> "dict", val |-> d ]
Str(s) == [ kind |-> "str", val |-> s ]
Text(t) == [ kind |-> "text", text |-> t ]
EmptyDict == [ k \in {} |-> << >> ]

(***************************************************************************)
(* str.replace and str.split, for a one-character separator.               *)
(***************************************************************************)
replace(s, old, new) ==
    [ i \in 1..Len(s) |-> IF s[i] = old THEN new ELSE s[i] ]

RECURSIVE SplitFrom(_, _, _, _, _)
SplitFrom(s, sep, i, cur, acc) ==
    IF i > Len(s) THEN Append(acc, cur)
    ELSE IF s[i] = sep
         THEN SplitFrom(s, sep, i + 1, << >>, Append(acc, cur))
         ELSE SplitFrom(s, sep, i + 1, Append(cur, s[i]), acc)

split(s, sep) == SplitFrom(s, sep, 1, << >>, << >>)

split_on_dots_only(fname) == split(fname, ".")

split_filename(fname) == split(replace(fname, "_", "."), ".")

(***************************************************************************)
(* _check_for_matching_filetype: the loop over the pattern's fields, from  *)
(* field i on, with file_dictionary as built so far.                       *)
(***************************************************************************)
RECURSIVE FieldLoop(_, _, _, _)
FieldLoop(pattern, tokens, i, file_dictionary) ==
    IF i > Len(pattern) THEN Dict(file_dictionary)
    ELSE IF pattern[i][2] = Wildcard
         THEN FieldLoop(pattern, tokens, i + 1,
                        Append(file_dictionary, << pattern[i][1], tokens[i] >>))
         ELSE IF pattern[i][2] = tokens[i]
              THEN FieldLoop(pattern, tokens, i + 1,
                             Append(file_dictionary, << pattern[i][1], tokens[i] >>))
              ELSE None

_check_for_matching_filetype(pattern, fname) ==
    LET tokens == split_filename(fname)
    IN  IF Len(tokens) # Len(pattern) THEN None
        ELSE FieldLoop(pattern, tokens, 1, << >>)

(***************************************************************************)
(* The presigning request of _generate_signed_upload_url.                  *)
(***************************************************************************)
BucketName(bucket_name) == SubSeq(bucket_name, 6, Len(bucket_name))

UploadKeyTokenized(path, fname) == path \o replace(fname, "_", ".")

UploadKey(path, fname) == path \o fname

TagsWithoutFilename(t) ==
    IF t = None THEN EmptyDict
    ELSE [ k \in DOMAIN t.val \ { "filename" } |-> t.val[k] ]

TagsOrDict(t) ==
    IF t = None THEN EmptyDict
    ELSE IF DOMAIN t.val = {} THEN EmptyDict ELSE t.val

SignRequest(path, fname, t) ==
    [ ClientMethod |-> "put_object",
      Params |-> [ Bucket |-> BucketName(S3_BUCKET),
                   Key |-> UploadKey(path, fname),
                   Metadata |-> TagsOrDict(t) ],
      ExpiresIn |-> ExpiresIn ]

\* The url that generate_presigned_url answers: it names what it signs.
PresignedUrl(request) == [ kind |-> "url", signs |-> request ]

(***************************************************************************)
(* The responses of lambda_handler.                                        *)
(***************************************************************************)
json_dumps(v) == [ json |-> v ]

MissingFilenameMessage == Text("Please specify a filename to upload")

NoMatchMessage ==
    Text("A pre-signed URL could not be generated. Please ensure that the file name matches mission file naming conventions.")

Response(status, v) == [ statusCode |-> status, body |-> json_dumps(v) ]

\* `"filename" not in event["queryStringParameters"]`, negated.
HasNonEmptyFilename(qsp) ==
    IF "filename" \in DOMAIN qsp THEN qsp["filename"] # << >> ELSE FALSE

HasFilename(qsp) == "filename" \in DOMAIN qsp

\* The two returns that follow the call of _generate_signed_upload_url.
HandlerResponseAlways200(u) == Response(200, u)

HandlerResponse(u) ==
    IF u = None THEN Response(400, NoMatchMessage) ELSE Response(200, u)

VARIABLES
    configStore,          \* content of config.json in the config bucket
    configWrites,         \* times config.json was rewritten
    pc,                   \* position of the invocation
    event,                \* event["queryStringParameters"]
    filename,             \* lambda_handler's filename
    tags,                 \* _generate_signed_upload_url's tags
    filetypes,            \* the loaded catalog
    idx,                  \* entries of filetypes the for loop has taken
    path_to_upload_file,
    metadata,
    url,
    response,
    fault,                \* the exception that left the handler, if any
    fetches,              \* s3.get_object calls of this invocation
    matchCalls,           \* _check_for_matching_filetype calls of this invocation
    signRequests,         \* generate_presigned_url calls of this invocation
    calls,                \* invocations started
    first                 \* what the first invocation left, once it is repeated

vars == << configStore, configWrites, pc, event, filename, tags, filetypes, idx,
           path_to_upload_file, metadata, url, response, fault, fetches,
           matchCalls, signRequests, calls, first >>

locals == << filetypes, idx, path_to_upload_file, metadata, url >>
counters == << fetches, matchCalls, signRequests >>
store == << configStore, configWrites >>

Init ==
    /\ configStore \in Catalogs
    /\ configWrites = 0
    /\ pc = "idle"
    /\ event = EmptyDict
    /\ filename = Unbound
    /\ tags = Unbound
    /\ filetypes = << >>
    /\ idx = 0
    /\ path_to_upload_file = Unbound
    /\ metadata = Unbound
    /\ url = Unbound
    /\ response = Unbound
    /\ fault = "none"
    /\ fetches = 0
    /\ matchCalls = 0
    /\ signRequests = << >>
    /\ calls = 0
    /\ first = Unbound

(***************************************************************************)
(* lambda_handler, from its entry to the call of                           *)
(* _generate_signed_upload_url: a fresh frame, then the test for the       *)
(* filename key.                                                           *)
(***************************************************************************)
HandlerEntryFetchFirst(qsp) ==
    /\ event' = qsp
    /\ filetypes' = << >>
    /\ idx' = 0
    /\ path_to_upload_file' = Unbound
    /\ metadata' = Unbound
    /\ url' = Unbound
    /\ fault' = "none"
    /\ fetches' = IF HasFilename(qsp) THEN 0 ELSE 1
    /\ matchCalls' = 0
    /\ signRequests' = << >>
    /\ IF ~HasFilename(qsp)
       THEN /\ response' = Response(400, MissingFilenameMessage)
            /\ filename' = Unbound
            /\ tags' = Unbound
            /\ pc' = "done"
       ELSE /\ response' = Unbound
            /\ filename' = Str(qsp["filename"])
            /\ tags' = Dict(qsp)
            /\ pc' = "load"

HandlerEntry(qsp) ==
    /\ event' = qsp
    /\ filetypes' = << >>
    /\ idx' = 0
    /\ path_to_upload_file' = Unbound
    /\ metadata' = Unbound
    /\ url' = Unbound
    /\ fault' = "none"
    /\ fetches' = 0
    /\ matchCalls' = 0
    /\ signRequests' = << >>
    /\ IF ~HasFilename(qsp)
       THEN /\ response' = Response(400, MissingFilenameMessage)
            /\ filename' = Unbound
            /\ tags' = Unbound
            /\ pc' = "done"
       ELSE /\ response' = Unbound
            /\ filename' = Str(qsp["filename"])
            /\ tags' = Dict(qsp)
            /\ pc' = "load"

Invoke(qsp) ==
    /\ pc = "idle"
    /\ calls = 0
    /\ calls' = 1
    /\ HandlerEntry(qsp)
    /\ UNCHANGED << store, first >>

(***************************************************************************)
(* _load_allowed_filenames: one get_object of config.json and its parse.   *)
(* The store may be unreachable or hold no config.json (the get_object     *)
(* raises), or hold content that json.loads rejects.                       *)
(***************************************************************************)
LoadOutcomes == { "ok", "ClientError", "JSONDecodeError" }

LoadCatalogSwallow(outcome) ==
    /\ pc = "load"
    /\ fetches' = fetches + 1
    /\ IF outcome = "ok"
       THEN /\ filetypes' = configStore
            /\ pc' = IF Len(configStore) = 0 THEN "after" ELSE "loop"
            /\ fault' = fault
            /\ url' = url
       ELSE /\ filetypes' = filetypes
            /\ pc' = "return"
            /\ fault' = outcome
            /\ url' = None
    /\ UNCHANGED << store, event, filename, tags, idx, path_to_upload_file,
                    metadata, response, matchCalls, signRequests, calls,
                    first >>

LoadCatalog(outcome) ==
    /\ pc = "load"
    /\ fetches' = fetches + 1
    /\ IF outcome = "ok"
       THEN /\ filetypes' = configStore
            /\ pc' = IF Len(configStore) = 0 THEN "after" ELSE "loop"
            /\ fault' = fault
       ELSE /\ filetypes' = filetypes
            /\ pc' = "fault"
            /\ fault' = outcome
    /\ UNCHANGED << store, event, filename, tags, idx, path_to_upload_file,
                    metadata, url, response, matchCalls, signRequests, calls,
                    first >>

(***************************************************************************)
(* One turn of the for loop of _generate_signed_upload_url.                *)
(***************************************************************************)
NeverBreak(m) == FALSE

BreakLoop(m) == m # None

LoopIteration ==
    /\ pc = "loop"
    /\ idx < Len(filetypes)
    /\ LET filetype == filetypes[idx + 1]
           m == _check_for_matching_filetype(filetype.pattern, filename.val)
       IN  /\ idx' = idx + 1
           /\ path_to_upload_file' = Str(filetype.path)
           /\ metadata' = m
           /\ matchCalls' = matchCalls + 1
           /\ pc' = IF BreakLoop(m) \/ idx + 1 = Len(filetypes)
                    THEN "after" ELSE "loop"
    /\ UNCHANGED << store, event, filename, tags, filetypes, url, response,
                    fault, fetches, signRequests, calls, first >>

(***************************************************************************)
(* After the loop: `if metadata is None`, then the presigning call.        *)
(* Reading metadata when no turn of the loop assigned it raises            *)
(* UnboundLocalError.                                                      *)
(***************************************************************************)
AfterLoop ==
    /\ pc = "after"
    /\ IF metadata = Unbound
       THEN /\ pc' = "fault"
            /\ fault' = "UnboundLocalError"
            /\ UNCHANGED << url, signRequests >>
       ELSE IF metadata = None
            THEN /\ url' = None
                 /\ pc' = "return"
                 /\ UNCHANGED << fault, signRequests >>
            ELSE LET request ==
                         SignRequest(path_to_upload_file.val, filename.val, tags)
                 IN  /\ signRequests' = Append(signRequests, request)
                     /\ url' = PresignedUrl(request)
                     /\ pc' = "return"
                     /\ fault' = fault
    /\ UNCHANGED << store, event, filename, tags, filetypes, idx,
                    path_to_upload_file, metadata, response, fetches,
                    matchCalls, calls, first >>

(***************************************************************************)
(* lambda_handler, after _generate_signed_upload_url returned.             *)
(***************************************************************************)
Return ==
    /\ pc = "return"
    /\ response' = HandlerResponse(url)
    /\ pc' = "done"
    /\ UNCHANGED << store, event, filename, tags, locals, fault, counters,
                    calls, first >>

Next ==
    \/ \E qsp \in Events : Invoke(qsp)
    \/ \E outcome \in LoadOutcomes : LoadCatalog(outcome)
    \/ LoopIteration
    \/ AfterLoop
    \/ Return

Spec == Init /\ [][Next]_vars
(***************************************************************************)
(* A second invocation with the same event, and config.json rewritten      *)
(* before the second invocation fetches it.                                *)
(***************************************************************************)
Repeat ==
    /\ pc \in { "done", "fault" }
    /\ calls = 1
    /\ calls' = 2
    /\ first' = [ configWrites |-> configWrites, signRequests |-> signRequests,
                  url |-> url, response |-> response, fault |-> fault ]
    /\ HandlerEntry(event)
    /\ UNCHANGED store

PutConfig(catalog) ==
    /\ pc = "load"
    /\ calls = 2
    /\ configWrites < MaxWrites
    /\ catalog # configStore
    /\ configStore' = catalog
    /\ configWrites' = configWrites + 1
    /\ UNCHANGED << pc, event, filename, tags, locals, response, fault,
                    counters, calls, first >>

NextRepeat ==
    \/ Next
    \/ Repeat
    \/ \E catalog \in Catalogs : PutConfig(catalog)

SpecRepeat == Init /\ [][NextRepeat]_vars
(***************************************************************************)
(* What the properties speak of, stated from the file name itself rather   *)
(* than through split: the separators of a name, its tokens as the         *)
(* stretches between them, and what it is for a pattern to fit a name.     *)
(***************************************************************************)
Separators(F) == { i \in 1..Len(F) : F[i] \in { "_", "." } }

NumTokens(F) == Cardinality(Separators(F)) + 1

\* The k-th separator of F; 0 before the first, Len(F) + 1 after the last.
Boundary(F, k) ==
    IF k = 0 THEN 0
    ELSE IF k > Cardinality(Separators(F)) THEN Len(F) + 1
    ELSE CHOOSE p \in Separators(F) :
             Cardinality({ q \in Separators(F) : q < p }) = k - 1

Token(F, k) == SubSeq(F, Boundary(F, k - 1) + 1, Boundary(F, k) - 1)

PatternFits(P, F) ==
    /\ NumTokens(F) = Len(P)
    /\ \A i \in 1..Len(P) : P[i][2] = Wildcard \/ P[i][2] = Token(F, i)

MatchResult(P, F) == [ i \in 1..Len(P) |-> << P[i][1], Token(F, i) >> ]

Fitting(catalog, F) ==
    { j \in 1..Len(catalog) : PatternFits(catalog[j].pattern, F) }

FirstFitting(catalog, F) ==
    CHOOSE j \in Fitting(catalog, F) : \A k \in Fitting(catalog, F) : j <= k

LoadFailures == LoadOutcomes \ { "ok" }
Started == calls >= 1
Finished == pc \in { "done", "fault" }
Returned == pc = "done"
CarriesFilename == Started /\ "filename" \in DOMAIN event

(***************************************************************************)
(* C1: a request that carries a filename, against a catalog that loads and *)
(* in which no entry fits the name (the empty catalog included), ends with *)
(* the 400 no-matching-convention response: no fault, no signing request.  *)
(***************************************************************************)
C1_UnmatchedGets400 ==
    ( /\ CarriesFilename
      /\ Finished
      /\ fault \notin LoadFailures
      /\ Fitting(configStore, event["filename"]) = {} )
    => /\ Returned
       /\ fault = "none"
       /\ response = Response(400, NoMatchMessage)
       /\ signRequests = << >>

(***************************************************************************)
(* C2: a request without the filename key gets the 400 'Please specify a   *)
(* filename to upload' response at once: config.json is never fetched, no  *)
(* pattern is tried and no url is signed.                                  *)
(***************************************************************************)
C2_MissingFilename400NoFetch ==
    ( Started /\ "filename" \notin DOMAIN event )
    => /\ Returned
       /\ response = Response(400, MissingFilenameMessage)
       /\ fetches = 0
       /\ matchCalls = 0
       /\ signRequests = << >>

C2_Witness ==
    /\ Started
    /\ DOMAIN event = { "instrument" }
    /\ Returned
    /\ response.statusCode = 400

(***************************************************************************)
(* C3, as stated: a request whose filename is present but empty ends with  *)
(* a 400 response and without a catalog lookup, as if the key were absent. *)
(***************************************************************************)
C3_EmptyFilenameRejected ==
    ( CarriesFilename /\ event["filename"] = << >> /\ Finished )
    => /\ Returned
       /\ response.statusCode = 400
       /\ fetches = 0
       /\ matchCalls = 0

(***************************************************************************)
(* C3, amended: a filename that is present but empty is not turned away at *)
(* the entry. The handler never answers it with the missing-filename       *)
(* response; it fetches config.json once, tries the name as one empty      *)
(* token, and when it returns it answers 200 exactly when some entry's     *)
(* pattern fits that token, and the 400 no-matching-convention otherwise.  *)
(***************************************************************************)
C3_EmptyFilenameIsLookedUp ==
    ( CarriesFilename /\ event["filename"] = << >> )
    => /\ response # Response(400, MissingFilenameMessage)
       /\ pc = "load" \/ fetches = 1
       /\ NumTokens(event["filename"]) = 1
       /\ Returned =>
            /\ response.statusCode = 200 <=> Fitting(filetypes, << >>) # {}
            /\ response.statusCode # 200
               => response = Response(400, NoMatchMessage)

C3_Witness ==
    /\ CarriesFilename
    /\ event["filename"] = << >>
    /\ Returned
    /\ response.statusCode = 200
    /\ fetches = 1

(***************************************************************************)
(* C4: when some entry of the loaded catalog fits the filename, the        *)
(* handler does not fault after the load, it returns 200, and its one      *)
(* signing request is for the key made of the fitting entry's path         *)
(* followed by the filename as it came, separators untouched; the body is  *)
(* the url signed for that request.                                        *)
(***************************************************************************)
C4_MatchedGets200AtPathPlusName ==
    ( /\ CarriesFilename
      /\ Finished
      /\ fault \notin LoadFailures
      /\ Fitting(configStore, event["filename"]) # {} )
    => LET F == event["filename"]
           e == configStore[FirstFitting(configStore, F)]
       IN  /\ Returned
           /\ response.statusCode = 200
           /\ Len(signRequests) = 1
           /\ signRequests[1].Params.Key = e.path \o F
           /\ \A j \in 1..Len(configStore) :
                configStore[j].path # e.path
                => signRequests[1].Params.Key # configStore[j].path \o F
           /\ response.body = json_dumps(PresignedUrl(signRequests[1]))

C4_Witness ==
    /\ Returned
    /\ response.statusCode = 200
    /\ Len(signRequests) = 1
    /\ \E i \in 1..Len(filename.val) : filename.val[i] = "_"
    /\ NumTokens(filename.val) = 2

(***************************************************************************)
(* C5: first match wins. Once the loop is over, the entry whose path and   *)
(* match result are held is the fitting entry of lowest index: the loop    *)
(* took no entry after it, and the paths of the entries before it, which   *)
(* do not fit, are not the path held.                                      *)
(***************************************************************************)
C5_FirstMatchWins ==
    ( /\ pc \in { "after", "return", "done" }
      /\ Fitting(filetypes, filename.val) # {} )
    => LET F == filename.val
           k == FirstFitting(filetypes, F)
       IN  /\ idx = k
           /\ matchCalls = k
           /\ path_to_upload_file = Str(filetypes[k].path)
           /\ metadata = Dict(MatchResult(filetypes[k].pattern, F))
           /\ \A j \in 1..Len(signRequests) :
                signRequests[j].Params.Key = filetypes[k].path \o F

C5_Witness ==
    /\ Returned
    /\ Cardinality(Fitting(filetypes, filename.val)) = 2
    /\ Len(signRequests) = 1

(***************************************************************************)
(* C6: the result of _check_for_matching_filetype for the entry the loop   *)
(* took last. It is a dictionary exactly when the name has as many tokens  *)
(* as the pattern has fields and every field is the wildcard or equals its *)
(* token; the dictionary then maps each field, in order, to its token;     *)
(* otherwise the result is None.                                           *)
(***************************************************************************)
C6_MatchIffEveryFieldFits ==
    idx >= 1
    => LET P == filetypes[idx].pattern
           F == filename.val
       IN  /\ metadata # None <=> PatternFits(P, F)
           /\ metadata # None => metadata = Dict(MatchResult(P, F))
           /\ NumTokens(F) # Len(P) => metadata = None
           /\ split_filename(F) = [ i \in 1..NumTokens(F) |-> Token(F, i) ]

C6_Witness ==
    /\ idx >= 1
    /\ metadata # None
    /\ Len(filetypes[idx].pattern) = 2
    /\ filetypes[idx].pattern[1][2] = << "a" >>
    /\ filetypes[idx].pattern[2][2] = Wildcard
    /\ \E i \in 1..Len(filename.val) : filename.val[i] = "_"

(***************************************************************************)
(* C7: the Metadata of every signing request is the request's whole        *)
(* query-parameter mapping, key for key and value for value, filename      *)
(* included; the match result adds no key to it and rewrites no value,     *)
(* even where a pattern field has the name of a query parameter.           *)
(***************************************************************************)
C7_MetadataIsQueryParameters ==
    \A j \in 1..Len(signRequests) :
        LET m == signRequests[j].Params.Metadata
        IN  /\ DOMAIN m = DOMAIN event
            /\ \A k \in DOMAIN event : m[k] = event[k]
            /\ m = event
            /\ \A i \in 1..Len(metadata.val) :
                   metadata.val[i][1] \notin DOMAIN event
                   => metadata.val[i][1] \notin DOMAIN m

C7_Witness ==
    /\ Len(signRequests) = 1
    /\ DOMAIN event = { "filename", "instrument" }
    /\ Len(metadata.val) = 2
    /\ metadata.val[2][1] = "instrument"
    /\ metadata.val[2][2] # event["instrument"]

(***************************************************************************)
(* C8: a second invocation with the same filename and tags, the same       *)
(* environment and config.json not rewritten in between either issues a    *)
(* signing request equal to the first one's (bucket, key, metadata and the *)
(* 3600 s expiry), or both invocations return None.                        *)
(***************************************************************************)
C8_RepeatIssuesSameRequest ==
    ( /\ calls = 2
      /\ Finished
      /\ CarriesFilename
      /\ first.configWrites = configWrites
      /\ first.fault \notin LoadFailures
      /\ fault \notin LoadFailures )
    => \/ /\ Len(first.signRequests) = 1
          /\ signRequests = first.signRequests
          /\ signRequests[1].ExpiresIn = 3600
       \/ /\ first.url = None
          /\ url = None
          /\ first.signRequests = << >>
          /\ signRequests = << >>

(***************************************************************************)
(* C9: when the fetch or the parse of config.json fails, the exception     *)
(* leaves lambda_handler: there is no response, neither 200 nor 400; no    *)
(* pattern was tried, no url signed, and config.json was asked for once.   *)
(***************************************************************************)
C9_LoadFailurePropagates ==
    fault \in LoadFailures
    => /\ pc = "fault"
       /\ response = Unbound
       /\ url = Unbound
       /\ matchCalls = 0
       /\ signRequests = << >>
       /\ fetches = 1

C9_Witness ==
    /\ pc = "fault"
    /\ fault = "JSONDecodeError"
    /\ Len(configStore) = 2
    /\ Fitting(configStore, event["filename"]) # {}

(***************************************************************************)
(* C10: the order of one invocation. config.json is fetched at most once   *)
(* and a url is signed at most once; a url is signed only after the fetch  *)
(* and after an entry fitted the filename; a 200 response is given only    *)
(* for the url that the signing request of this invocation returned.       *)
(***************************************************************************)
C10_FetchThenMatchThenSign ==
    /\ fetches <= 1
    /\ Len(signRequests) <= 1
    /\ signRequests # << >>
       => /\ fetches = 1
          /\ matchCalls >= 1
          /\ pc \in { "return", "done" }
          /\ metadata # None /\ metadata # Unbound
          /\ Fitting(filetypes, filename.val) # {}
          /\ url = PresignedUrl(signRequests[1])
    /\ matchCalls >= 1 => fetches = 1
    /\ ( response # Unbound /\ response.statusCode = 200 )
       => /\ Len(signRequests) = 1
          /\ response.body = json_dumps(PresignedUrl(signRequests[1]))

C10_Witness ==
    /\ Returned
    /\ response.statusCode = 200
    /\ fetches = 1
    /\ matchCalls = 2
    /\ Len(signRequests) = 1
====
